---- MODULE Spec2Model ----
(***************************************************************************)
(* The CXQL grammar (tree-sitter grammar DSL) as a lexer and a shift-      *)
(* reduce parser.  The source text is a sequence of one-character strings. *)
(* Each production of the grammar is one reduction; a shift/reduce         *)
(* conflict is settled by the prec / prec.left / prec.right numbers of the *)
(* grammar (higher number wins, equal numbers fall to associativity), the  *)
(* declared block / record_literal conflict by prec.dynamic.               *)
(*                                                                         *)
(* validate-examples.sh, which runs the parser over the example files and  *)
(* turns the outcome into an exit code, is a second state machine.         *)
(***************************************************************************)
EXTENDS Integers, Sequences, FiniteSets, TLC

VARIABLES src, pos, la, stack, toks, tree, pc, errPos

\* validate-examples.sh: the entries of the examples directory, the words
\* of the expanded for list, the loop position and variable, the shell
\* variables, the files parsed so far, the position in the script and
\* the exit code
VARIABLES dir, list, idx, file, OUTPUT, FAIL_COUNT, SUCCESS_COUNT, visited,
          spc, exitCode

parser == <<src, pos, la, stack, toks, tree, pc, errPos>>

script ==
    <<dir, list, idx, file, OUTPUT, FAIL_COUNT, SUCCESS_COUNT, visited, spc,
      exitCode>>

vars == <<parser, script>>

\* ------------------------------------------------------------------------
\* Syntax-tree nodes: type, operator, text, children, the field name of
\* each child ("" for a child without one) and the source span.
\* ------------------------------------------------------------------------
Node(type, op, kids, fields, from, to) ==
    [type |-> type, op |-> op, text |-> <<>>, kids |-> kids,
     fields |-> fields, from |-> from, to |-> to]

Leaf(type, text, from, to) ==
    [type |-> type, op |-> "", text |-> text, kids |-> <<>>,
     fields |-> <<>>, from |-> from, to |-> to]

NoNode == Leaf("none", <<>>, 0, 0)

NoTok == [kind |-> "none", text |-> <<>>, from |-> 0, to |-> 0]

Entry(sym, node) == [sym |-> sym, node |-> node]

MinOf(S) == CHOOSE m \in S : \A o \in S : m <= o

MaxOf(S) == CHOOSE m \in S : \A o \in S : m >= o

\* ------------------------------------------------------------------------
\* Character classes of the token rules
\* ------------------------------------------------------------------------
Lower == {"a","b","c","d","e","f","g","h","i","j","k","l","m",
          "n","o","p","q","r","s","t","u","v","w","x","y","z"}

Upper == {"A","B","C","D","E","F","G","H","I","J","K","L","M",
          "N","O","P","Q","R","S","T","U","V","W","X","Y","Z"}

Digit == {"0","1","2","3","4","5","6","7","8","9"}

IsLetter(c) == c \in Lower \cup Upper

IsIdChar(c) == c \in Lower \cup Upper \cup Digit \cup {"_", "-"}

IsWs(c) == c \in {" ", "\t", "\n", "\r"}

IsEol(c) == c \in {"\n", "\r"}

\* first index >= p that ends the comment starting at p
LineEnd(t, p) ==
    MinOf({q \in p..(Len(t) + 1) : q = Len(t) + 1 \/ IsEol(t[q])})

\* extras: whitespace and comments may stand before any token
RECURSIVE SkipExtras(_, _)
SkipExtras(t, p) ==
    IF p > Len(t) THEN p
    ELSE IF IsWs(t[p]) THEN SkipExtras(t, p + 1)
    ELSE IF t[p] = "#" THEN SkipExtras(t, LineEnd(t, p))
    ELSE p

\* identifier: /[a-zA-Z][a-zA-Z0-9_-]*/ at p, index after the match
IdentEnd(t, p) ==
    MinOf({q \in (p + 1)..(Len(t) + 1) : q = Len(t) + 1 \/ ~IsIdChar(t[q])})

DigitsEnd(t, p) ==
    MinOf({q \in p..(Len(t) + 1) : q = Len(t) + 1 \/ t[q] \notin Digit})

\* exponent: seq(/[eE]/, optional(/[+-]/), decimal), q if there is none
ExpEnd(t, q) ==
    IF q <= Len(t) /\ t[q] \in {"e", "E"}
    THEN LET q2 == IF q + 1 <= Len(t) /\ t[q + 1] \in {"+", "-"}
                   THEN q + 2 ELSE q + 1
         IN  IF q2 <= Len(t) /\ DigitsEnd(t, q2) > q2
             THEN DigitsEnd(t, q2) ELSE q
    ELSE q

\* number_literal: decimal | decimal . decimal exponent? | decimal exponent
NumEnd(t, p) ==
    LET d1 == DigitsEnd(t, p)
        hasFrac == /\ d1 + 1 <= Len(t)
                   /\ t[d1] = "."
                   /\ DigitsEnd(t, d1 + 1) > d1 + 1
    IN  IF hasFrac THEN ExpEnd(t, DigitsEnd(t, d1 + 1)) ELSE ExpEnd(t, d1)

\* string_literal: '"' (/[^"\\]/ | /\\./)* '"', scanning from i inside
\* the literal; index after the closing quote, 0 when unterminated
RECURSIVE StrScan(_, _)
StrScan(t, i) ==
    IF i > Len(t) THEN 0
    ELSE IF t[i] = "\"" THEN i + 1
    ELSE IF t[i] = "\\"
         THEN IF i + 1 <= Len(t) /\ ~IsEol(t[i + 1])
              THEN StrScan(t, i + 2) ELSE 0
    ELSE StrScan(t, i + 1)

\* a text run that also stops before a blank
FTextEndAtBlank(t, p) ==
    MinOf({q \in (p + 1)..(Len(t) + 1) :
              q = Len(t) + 1 \/ t[q] \in {"{", "\"", " "}})

\* fstring_text: token.immediate(prec(1, /[^{"]+/)), index after the run
FTextEnd(t, p) ==
    MinOf({q \in (p + 1)..(Len(t) + 1) :
              q = Len(t) + 1 \/ t[q] \in {"{", "\""}})

\* the keywords of the grammar: string literals of word shape, taken out
\* of the identifier token by `word`
KeywordOf(w) ==
    CASE w = <<"l","e","t">> -> "let"
      [] w = <<"c","o","n","n","e","c","t">> -> "connect"
      [] w = <<"a","s">> -> "as"
      [] w = <<"i","f">> -> "if"
      [] w = <<"e","l","s","e">> -> "else"
      [] w = <<"a","n","d">> -> "and"
      [] w = <<"o","r">> -> "or"
      [] w = <<"n","o","t">> -> "not"
      [] w = <<"t","r","u","e">> -> "true"
      [] w = <<"f","a","l","s","e">> -> "false"
      [] w = <<"n","u","l","l">> -> "null"
      [] OTHER -> ""

\* the two-character and one-character punctuation tokens
Punct2 == {"=>", "==", "!=", "<=", ">="}

Punct1 == {"(", ")", "[", "]", "{", "}", ",", ":", ".", "=", "|",
           "*", "/", "%", "+", "-", "<", ">"}

PairOf(t, p) ==
    IF p + 1 > Len(t) THEN ""
    ELSE CASE t[p] = "=" /\ t[p + 1] = ">" -> "=>"
           [] t[p] = "=" /\ t[p + 1] = "=" -> "=="
           [] t[p] = "!" /\ t[p + 1] = "=" -> "!="
           [] t[p] = "<" /\ t[p + 1] = "=" -> "<="
           [] t[p] = ">" /\ t[p + 1] = "=" -> ">="
           [] OTHER -> ""

\* ------------------------------------------------------------------------
\* Precedence numbers of the grammar
\* ------------------------------------------------------------------------
PrecPipe == 6

PrecArrow == 0

PrecMul == 7

PrecAdd == 6

PrecCmp == 5

PrecEq == 4

PrecAnd == 2

PrecOr == 1

PrecUnary == 8

PrecNot == 3

PrecMember == 10

PrecCall == 9

\* a rule without prec(...) has precedence 0
PrecNone == 0

DynPrecRecord == 1

BinOps == {"*", "/", "%", "+", "-", "<", ">", "<=", ">=", "==", "!=",
           "and", "or"}

Infix(k) == k \in BinOps \cup {"|"}

\* the pipe one level below the additive operators
PrecPipeLoose(k) ==
    CASE k = "|" -> PrecCmp
      [] k = "=>" -> PrecArrow
      [] k \in {"*", "/", "%"} -> PrecMul
      [] k \in {"+", "-"} -> PrecAdd
      [] k \in {"<", ">", "<=", ">="} -> PrecCmp
      [] k \in {"==", "!="} -> PrecEq
      [] k = "and" -> PrecAnd
      [] k = "or" -> PrecOr
      [] OTHER -> PrecNone

\* every infix operator on the additive level
PrecFlat(k) == IF Infix(k) THEN PrecAdd ELSE PrecNone

\* precedence of the production an infix token belongs to
Prec(k) ==
    CASE k \in {"*", "/", "%"} -> PrecMul
      [] k \in {"+", "-"} -> PrecAdd
      [] k \in {"<", ">", "<=", ">="} -> PrecCmp
      [] k \in {"==", "!="} -> PrecEq
      [] k = "and" -> PrecAnd
      [] k = "or" -> PrecOr
      [] k = "|" -> PrecPipe
      [] OTHER -> PrecNone

\* tokens that can begin an _expression
ExprStart(k) ==
    k \in {"id", "num", "str", "true", "false", "null", "(", "[", "{",
           "if", "fopen", "$", "-", "not"}

\* ------------------------------------------------------------------------
\* The parse stack.  Symbols on it: token kinds; "neg" (a prefix minus);
\* "(p" "(a" "(c" (parenthesis of a parenthesized_expression, an
\* argument_list, a connect_statement); "{" "{b" "{i" (brace where an
\* expression may start, where the grammar asks for a block, of an
\* fstring_interpolation); P (_primary_expression), E (_expression), LET,
\* CONN, XS (statements), PROP, KW, ARGS, BLK, FI.
\* ------------------------------------------------------------------------
Sym(s, d) == IF Len(s) > d THEN s[Len(s) - d].sym ELSE "bot"

Openers == {"(p", "(a", "(c", "[", "{", "{b", "{i", "fopen"}

\* index of the innermost bracket still open, 0 at the top level
OpenerIdx(s) == MaxOf({0} \cup {i \in 1..Len(s) : s[i].sym \in Openers})

Opener(s) == IF OpenerIdx(s) = 0 THEN "bot" ELSE s[OpenerIdx(s)].sym

\* the symbol a token is pushed as
ShiftSym(s, k) ==
    CASE k = "-" -> IF Sym(s, 0) = "E" THEN "-" ELSE "neg"
      [] k = "(" -> IF Sym(s, 0) = "P" THEN "(a"
                    ELSE IF Sym(s, 0) = "connect" THEN "(c" ELSE "(p"
      [] k = "{" -> IF Sym(s, 0) \in {"fopen", "ftext", "FI"} THEN "{i"
                    ELSE IF Sym(s, 0) \in {"if", "BLK", "else"} THEN "{b"
                    ELSE "{"
      [] OTHER -> k

\* every production right-associative
PendingAssocRight(b) == "right"

\* associativity of the production waiting below a finished operand:
\* prec.left for binary_expression and pipe_expression, prec.right for
\* unary_expression, logical_not_expression and arrow_expression
PendingAssoc(b) == IF b \in BinOps \cup {"|"} THEN "left" ELSE "right"

\* logical not on the level of unary minus
PendingPrecNotTight(b) ==
    CASE b \in BinOps \cup {"|"} -> Prec(b)
      [] b \in {"neg", "not"} -> PrecUnary
      [] b = "=>" -> PrecArrow
      [] OTHER -> PrecNone

\* unary minus without a precedence of its own
PendingPrecNegLoose(b) ==
    CASE b \in BinOps \cup {"|"} -> Prec(b)
      [] b = "not" -> PrecNot
      [] b = "=>" -> PrecArrow
      [] OTHER -> PrecNone

\* the arrow on the multiplicative level
PendingPrecArrowHigh(b) ==
    CASE b \in BinOps \cup {"|"} -> Prec(b)
      [] b = "neg" -> PrecUnary
      [] b = "not" -> PrecNot
      [] b = "=>" -> PrecMul
      [] OTHER -> PrecNone

PendingPrec(b) ==
    CASE b \in BinOps \cup {"|"} -> Prec(b)
      [] b = "neg" -> PrecUnary
      [] b = "not" -> PrecNot
      [] b = "=>" -> PrecArrow
      [] OTHER -> PrecNone

PendingRule(b) ==
    CASE b \in BinOps -> "binary"
      [] b = "|" -> "pipe"
      [] b = "neg" -> "unary"
      [] b = "not" -> "not"
      [] b = "=>" -> "arrow"
      [] OTHER -> "none"

\* a tie of precedence settled for the shift
ShiftWinsOnTie(p, assoc, k) == Infix(k) /\ Prec(k) >= p

\* shift/reduce resolution: the shift of infix token k wins over a
\* reduction of precedence p when its production has the higher
\* precedence, or the same precedence and the reduction is
\* right-associative
ShiftWins(p, assoc, k) ==
    Infix(k) /\ (Prec(k) > p \/ (Prec(k) = p /\ assoc = "right"))

\* the two readings of an empty {} and the one prec.dynamic selects
DynPrec(rule) == IF rule = "record" THEN DynPrecRecord ELSE PrecNone

\* the reading without the dynamic precedence
EmptyBraceBlock == "block"

EmptyBraceRule ==
    CHOOSE r \in {"record", "block"} :
        \A o \in {"record", "block"} : DynPrec(r) >= DynPrec(o)

\* an argument list whose first argument alone may be a keyword argument
ArgStartFirstOnly(s) == Sym(s, 1) = "(a"

ArgStart(s) ==
    Sym(s, 1) = "(a" \/ (Sym(s, 1) = "," /\ Opener(s) = "(a")

PropStart(s) ==
    Sym(s, 1) = "{" \/ (Sym(s, 1) = "," /\ Opener(s) = "{")

AtProgram(s) == Sym(s, 0) \in {"bot", "XS", "CONN"}
                    \/ (Sym(s, 0) = "LET" /\ Opener(s) = "bot")

StmtFollow(k) == k \in {"eof", "let", "connect"} \/ ExprStart(k)

Sh(ok) == IF ok THEN "shift" ELSE "error"

\* a . or ( after a primary expression only ever continues it
PostfixShiftMemberOnly(k) == k = "." /\ PrecMember > PrecNone

\* a . or ( after a primary expression continues it: member_expression
\* and function_call carry a precedence above that of the reduction to
\* _expression
PostfixShift(k) ==
    \/ k = "." /\ PrecMember > PrecNone
    \/ k = "(" /\ PrecCall > PrecNone

\* a let statement admitted after the result expression of a block
BodyEndOrLet(k) == k \in {"}", "let"}

\* after the result expression of a block body only } closes the block
BodyEnd(k) == k = "}"

\* a finished _expression on top of the stack, next token k
DecideExpr(s, k) ==
    LET b == Sym(s, 1)
        below == IF Len(s) >= 2 THEN SubSeq(s, 1, Len(s) - 1) ELSE <<>>
    IN  IF PendingRule(b) # "none"
        THEN IF ShiftWins(PendingPrec(b), PendingAssoc(b), k)
             THEN "shift" ELSE PendingRule(b)
        ELSE IF ShiftWins(PrecNone, "left", k) THEN "shift"
        ELSE CASE b = "=" /\ Sym(s, 2) = "id" /\ Sym(s, 3) = "let" -> "let"
               [] b = "=" /\ Sym(s, 2) = "id" /\ Sym(s, 3) # "let" -> "kwarg"
               [] b = ":" -> "property"
               [] b = "(p" -> Sh(k = ")")
               [] b = "(c" -> Sh(k = ",")
               [] b = "(a" \/ (b = "," /\ Opener(s) = "(a") ->
                      Sh(k \in {",", ")"})
               [] b = "[" \/ (b = "," /\ Opener(s) = "[") ->
                      Sh(k \in {",", "]"})
               [] b = "{i" -> Sh(k = "}")
               [] b \in {"{", "{b"} -> Sh(BodyEnd(k))
               [] b = "LET" /\ Opener(below) \in {"{", "{b"} ->
                      Sh(BodyEnd(k))
               [] AtProgram(below) ->
                      IF StmtFollow(k) THEN "exprstmt" ELSE "error"
               [] OTHER -> "error"

\* the parser's move with stack s and next token kind k: "shift",
\* "accept", "error" or the name of the production to reduce by
Decide(s, k) ==
    LET t == Sym(s, 0)
        b == Sym(s, 1)
    IN  CASE AtProgram(s) ->
               IF k = "eof" THEN "accept" ELSE Sh(StmtFollow(k))
          [] t = "LET" /\ Opener(s) # "bot" ->
               Sh(k = "let" \/ ExprStart(k) \/ k = "}")
          [] t \in {"{", "{b"} -> Sh(k = "let" \/ ExprStart(k) \/ k = "}")
          [] t = "let" -> Sh(k = "id")
          [] t = "id" ->
               CASE b = "let" -> Sh(k = "=")
                 [] b = "." -> "member"
                 [] b = "$" -> "varref"
                 [] b \notin {"let", ".", "$"} /\ k = "=>" -> "shift"
                 [] b \notin {"let", ".", "$"} /\ k = "=" /\ ArgStart(s) ->
                        "shift"
                 [] b \notin {"let", ".", "$"} /\ k = ":" /\ PropStart(s) ->
                        "shift"
                 [] b = "," /\ Opener(s) = "{" /\ k # ":" -> "error"
                 [] OTHER -> "atom"
          [] t = "str" ->
               CASE b = "=" /\ Sym(s, 2) = "as" -> Sh(k = ")")
                 [] b \notin {"="} /\ k = ":" /\ PropStart(s) -> "shift"
                 [] b = "," /\ Opener(s) = "{" /\ k # ":" -> "error"
                 [] OTHER -> "atom"
          [] t \in {"num", "true", "false", "null"} -> "atom"
          [] t = "P" ->
               IF PostfixShift(k) THEN "shift" ELSE "primary"
          [] t = "E" -> DecideExpr(s, k)
          [] t = "KW" -> Sh(k \in {",", ")"})
          [] t = "PROP" -> Sh(k \in {",", "}"})
          [] t = "," ->
               CASE Opener(s) = "(a" -> Sh(ExprStart(k) \/ k = ")")
                 [] Opener(s) = "[" -> Sh(ExprStart(k) \/ k = "]")
                 [] Opener(s) = "{" -> Sh(k \in {"id", "str", "}"})
                 [] Opener(s) = "(c" -> Sh(k = "as")
                 [] OTHER -> "error"
          [] t = ")" ->
               CASE Opener(s) = "(p" -> "paren"
                 [] Opener(s) = "(a" -> "args"
                 [] Opener(s) = "(c" -> "connect"
                 [] OTHER -> "error"
          [] t = "ARGS" -> "call"
          [] t = "]" -> "list"
          [] t = "}" ->
               CASE Opener(s) = "{i" -> "interp"
                 [] Opener(s) = "{b" -> "block"
                 [] Opener(s) = "{" /\ b = "{" -> EmptyBraceRule
                 [] Opener(s) = "{" /\ b # "{" ->
                        IF s[OpenerIdx(s) + 1].sym = "PROP"
                        THEN "record" ELSE "block"
                 [] OTHER -> "error"
          [] t = "fclose" -> "fstring"
          [] t \in {"fopen", "ftext", "FI"} ->
               Sh(k \in {"ftext", "{", "fclose"})
          [] t \in {"if", "else"} -> Sh(k = "{")
          [] t = "BLK" ->
               CASE b = "if" -> Sh(k = "{")
                 [] b = "BLK" -> IF k = "else" THEN "shift" ELSE "if"
                 [] OTHER -> "if"
          [] t \in {"$", "."} -> Sh(k = "id")
          [] t = "connect" -> Sh(k = "(")
          [] t = "as" -> Sh(k = "=")
          [] t = "=" -> IF b = "as" THEN Sh(k = "str") ELSE Sh(ExprStart(k))
          [] t = "(a" -> Sh(ExprStart(k) \/ k = ")")
          [] t = "[" -> Sh(ExprStart(k) \/ k = "]")
          [] t \in {"(p", "(c", "{i", ":", "=>", "|", "neg", "not"}
                   \cup BinOps -> Sh(ExprStart(k))
          [] OTHER -> "error"

\* ------------------------------------------------------------------------
\* Reductions: one per production, from the stack to the stack
\* ------------------------------------------------------------------------
Top(s) == s[Len(s)]

Pop(s, n) == SubSeq(s, 1, Len(s) - n)

\* separators kept among the elements
KeepComma(e) == TRUE

NotComma(e) == e.sym # ","

\* nodes of the entries between the innermost open bracket and the
\* closing token on top, separators left out
Items(s) ==
    LET inner == SelectSeq(SubSeq(s, OpenerIdx(s) + 1, Len(s) - 1), NotComma)
    IN  [j \in 1..Len(inner) |-> inner[j].node]

NoFields(n) == [j \in 1..n |-> ""]

\* _primary_expression: identifier | number_literal | string_literal |
\* boolean_literal | null_literal
RAtom(s) == Append(Pop(s, 1), Entry("P", Top(s).node))

\* _expression: _primary_expression
RPrimary(s) == Append(Pop(s, 1), Entry("E", Top(s).node))

RMember(s) ==
    LET o == s[Len(s) - 2].node
        q == Top(s).node
    IN  Append(Pop(s, 3),
               Entry("P", Node("member_expression", "", <<o, q>>,
                               <<"object", "property">>, o.from, q.to)))

RVarRef(s) ==
    LET d == s[Len(s) - 1].node
        q == Top(s).node
    IN  Append(Pop(s, 2),
               Entry("P", Node("variable_reference", "", <<q>>,
                               <<"">>, d.from, q.to)))

RBinary(s) ==
    LET l == s[Len(s) - 2].node
        o == s[Len(s) - 1].node
        r == Top(s).node
    IN  Append(Pop(s, 3),
               Entry("E", Node("binary_expression", o.type, <<l, r>>,
                               <<"left", "right">>, l.from, r.to)))

RPipe(s) ==
    LET l == s[Len(s) - 2].node
        r == Top(s).node
    IN  Append(Pop(s, 3),
               Entry("E", Node("pipe_expression", "|", <<l, r>>,
                               <<"left", "right">>, l.from, r.to)))

RUnary(s) ==
    LET o == s[Len(s) - 1].node
        r == Top(s).node
    IN  Append(Pop(s, 2),
               Entry("E", Node("unary_expression", "-", <<r>>,
                               <<"operand">>, o.from, r.to)))

RNot(s) ==
    LET o == s[Len(s) - 1].node
        r == Top(s).node
    IN  Append(Pop(s, 2),
               Entry("E", Node("logical_not_expression", "not", <<r>>,
                               <<"operand">>, o.from, r.to)))

RArrow(s) ==
    LET a == s[Len(s) - 2].node
        r == Top(s).node
    IN  Append(Pop(s, 3),
               Entry("E", Node("arrow_expression", "=>", <<a, r>>,
                               <<"parameter", "body">>, a.from, r.to)))

RLet(s) ==
    LET k == s[Len(s) - 3].node
        a == s[Len(s) - 2].node
        r == Top(s).node
    IN  Append(Pop(s, 4),
               Entry("LET", Node("let_statement", "", <<a, r>>,
                                 <<"name", "value">>, k.from, r.to)))

RKwarg(s) ==
    LET a == s[Len(s) - 2].node
        r == Top(s).node
    IN  Append(Pop(s, 3),
               Entry("KW", Node("keyword_argument", "", <<a, r>>,
                                <<"name", "value">>, a.from, r.to)))

RProperty(s) ==
    LET a == s[Len(s) - 2].node
        r == Top(s).node
    IN  Append(Pop(s, 3),
               Entry("PROP", Node("property", "", <<a, r>>,
                                  <<"key", "value">>, a.from, r.to)))

RParen(s) ==
    LET o == s[Len(s) - 2].node
        e == s[Len(s) - 1].node
    IN  Append(Pop(s, 3),
               Entry("P", Node("parenthesized_expression", "", <<e>>,
                               <<"">>, o.from, Top(s).node.to)))

RArgs(s) ==
    LET i == OpenerIdx(s)
        it == Items(s)
    IN  Append(SubSeq(s, 1, i - 1),
               Entry("ARGS", Node("argument_list", "", it, NoFields(Len(it)),
                                  s[i].node.from, Top(s).node.to)))

RCall(s) ==
    LET f == s[Len(s) - 1].node
        a == Top(s).node
    IN  Append(Pop(s, 2),
               Entry("P", Node("function_call", "", <<f, a>>,
                               <<"function", "arguments">>, f.from, a.to)))

RList(s) ==
    LET i == OpenerIdx(s)
        it == Items(s)
    IN  Append(SubSeq(s, 1, i - 1),
               Entry("P", Node("list_literal", "", it, NoFields(Len(it)),
                               s[i].node.from, Top(s).node.to)))

RRecord(s) ==
    LET i == OpenerIdx(s)
        it == Items(s)
    IN  Append(SubSeq(s, 1, i - 1),
               Entry("P", Node("record_literal", "", it, NoFields(Len(it)),
                               s[i].node.from, Top(s).node.to)))

\* block: "{" optional(_block_body) "}"; the trailing expression of the
\* body carries the field "result"
RBlock(s) ==
    LET i == OpenerIdx(s)
        it == Items(s)
        fl == [j \in 1..Len(it) |->
                  IF s[i + j].sym = "LET" THEN "" ELSE "result"]
    IN  Append(SubSeq(s, 1, i - 1),
               Entry(IF s[i].sym = "{b" THEN "BLK" ELSE "P",
                     Node("block", "", it, fl,
                          s[i].node.from, Top(s).node.to)))

RIf(s) ==
    IF Sym(s, 1) = "else"
    THEN LET k == s[Len(s) - 4].node
             c == s[Len(s) - 3].node
             a == s[Len(s) - 2].node
             b == Top(s).node
         IN  Append(Pop(s, 5),
                    Entry("P", Node("if_expression", "", <<c, a, b>>,
                               <<"condition", "consequent", "alternative">>,
                               k.from, b.to)))
    ELSE LET k == s[Len(s) - 2].node
             c == s[Len(s) - 1].node
             a == Top(s).node
         IN  Append(Pop(s, 3),
                    Entry("P", Node("if_expression", "", <<c, a>>,
                               <<"condition", "consequent">>, k.from, a.to)))

RInterp(s) ==
    LET o == s[Len(s) - 2].node
        e == s[Len(s) - 1].node
    IN  Append(Pop(s, 3),
               Entry("FI", Node("fstring_interpolation", "", <<e>>,
                                <<"expression">>, o.from, Top(s).node.to)))

RFString(s) ==
    LET i == OpenerIdx(s)
        it == Items(s)
    IN  Append(SubSeq(s, 1, i - 1),
               Entry("P", Node("fstring_literal", "", it, NoFields(Len(it)),
                               s[i].node.from, Top(s).node.to)))

\* connect ( source , as = alias )
RConnect(s) ==
    LET k == s[Len(s) - 7].node
        e == s[Len(s) - 5].node
        a == s[Len(s) - 1].node
    IN  Append(Pop(s, 8),
               Entry("CONN", Node("connect_statement", "", <<e, a>>,
                                  <<"source", "alias">>, k.from,
                                  Top(s).node.to)))

RExprStmt(s) ==
    LET e == Top(s).node
    IN  Append(Pop(s, 1),
               Entry("XS", Node("expression_statement", "", <<e>>, <<"">>,
                                e.from, e.to)))

Apply(s, rule) ==
    CASE rule = "atom" -> RAtom(s)
      [] rule = "primary" -> RPrimary(s)
      [] rule = "member" -> RMember(s)
      [] rule = "varref" -> RVarRef(s)
      [] rule = "binary" -> RBinary(s)
      [] rule = "pipe" -> RPipe(s)
      [] rule = "unary" -> RUnary(s)
      [] rule = "not" -> RNot(s)
      [] rule = "arrow" -> RArrow(s)
      [] rule = "let" -> RLet(s)
      [] rule = "kwarg" -> RKwarg(s)
      [] rule = "property" -> RProperty(s)
      [] rule = "paren" -> RParen(s)
      [] rule = "args" -> RArgs(s)
      [] rule = "call" -> RCall(s)
      [] rule = "list" -> RList(s)
      [] rule = "record" -> RRecord(s)
      [] rule = "block" -> RBlock(s)
      [] rule = "if" -> RIf(s)
      [] rule = "interp" -> RInterp(s)
      [] rule = "fstring" -> RFString(s)
      [] rule = "connect" -> RConnect(s)
      [] rule = "exprstmt" -> RExprStmt(s)

\* program: repeat(_statement)
ProgramNode(t, s) ==
    Node("program", "", [j \in 1..Len(s) |-> s[j].node], NoFields(Len(s)),
         IF Len(s) = 0 THEN 1 ELSE s[1].node.from,
         IF Len(s) = 0 THEN 0 ELSE Top(s).node.to)

\* token k has an action in the parser's state: after the reductions it
\* triggers, it is shifted or accepted
RECURSIVE Viable(_, _)
Viable(s, k) ==
    LET d == Decide(s, k)
    IN  CASE d \in {"shift", "accept"} -> TRUE
          [] d = "error" -> FALSE
          [] OTHER -> Viable(Apply(s, d), k)

\* ------------------------------------------------------------------------
\* The lexer: the next token of text t from position p, for the parser
\* whose stack is s
\* ------------------------------------------------------------------------
Tok(kind, t, from, to) ==
    [kind |-> kind, text |-> SubSeq(t, from, to), from |-> from, to |-> to]

\* fstring_text is lexed where it has an action: inside fstring_literal,
\* between the parts
InFString(s) == Viable(s, "ftext")

\* node type of a token
TokType(k) ==
    CASE k = "id" -> "identifier"
      [] k = "num" -> "number_literal"
      [] k = "str" -> "string_literal"
      [] k \in {"true", "false"} -> "boolean_literal"
      [] k = "null" -> "null_literal"
      [] k = "ftext" -> "fstring_text"
      [] OTHER -> k

\* a word is a keyword only where the keyword has an action; elsewhere
\* it is the identifier token (word: $.identifier)
WordKind(s, w) ==
    IF KeywordOf(w) # "" /\ Viable(s, KeywordOf(w))
    THEN KeywordOf(w) ELSE "id"

NextToken(t, s, p) ==
    IF InFString(s)
    THEN IF p > Len(t) THEN Tok("eof", t, p, p - 1)
         ELSE IF t[p] = "{" THEN Tok("{", t, p, p)
         ELSE IF t[p] = "\"" THEN Tok("fclose", t, p, p)
         ELSE Tok("ftext", t, p, FTextEnd(t, p) - 1)
    ELSE LET q == SkipExtras(t, p)
         IN  IF q > Len(t) THEN Tok("eof", t, q, q - 1)
             ELSE IF IsLetter(t[q])
                  THEN Tok(WordKind(s, SubSeq(t, q, IdentEnd(t, q) - 1)),
                           t, q, IdentEnd(t, q) - 1)
             ELSE IF t[q] \in Digit THEN Tok("num", t, q, NumEnd(t, q) - 1)
             ELSE IF t[q] = "\""
                  THEN IF StrScan(t, q + 1) = 0
                       THEN Tok("invalid", t, q, q)
                       ELSE Tok("str", t, q, StrScan(t, q + 1) - 1)
             ELSE IF t[q] = "$"
                  THEN IF q + 1 <= Len(t) /\ t[q + 1] = "\""
                       THEN Tok("fopen", t, q, q + 1)
                       ELSE Tok("$", t, q, q)
             ELSE IF PairOf(t, q) # "" /\ Viable(s, PairOf(t, q))
                  THEN Tok(PairOf(t, q), t, q, q + 1)
             ELSE IF t[q] \in Punct1 /\ Viable(s, t[q])
                  THEN Tok(t[q], t, q, q)
             ELSE IF PairOf(t, q) # "" THEN Tok(PairOf(t, q), t, q, q + 1)
             ELSE IF t[q] \in Punct1 THEN Tok(t[q], t, q, q)
             ELSE Tok("invalid", t, q, q)

PushToken(s, l) ==
    Append(s, Entry(ShiftSym(s, l.kind),
                    Leaf(TokType(l.kind), l.text, l.from, l.to)))

\* the whole parse of text t as a function: its end state
RECURSIVE Run(_, _, _, _)
Run(t, s, p, l) ==
    IF l = NoTok
    THEN Run(t, s, NextToken(t, s, p).to + 1, NextToken(t, s, p))
    ELSE LET d == Decide(s, l.kind)
         IN  CASE d = "shift" -> Run(t, PushToken(s, l), p, NoTok)
               [] d = "accept" ->
                      [pc |-> "done", tree |-> ProgramNode(t, s), errPos |-> 0]
               [] d = "error" ->
                      [pc |-> "error", tree |-> NoNode, errPos |-> l.from]
               [] OTHER -> Run(t, Apply(s, d), p, l)

ParseOf(t) == Run(t, <<>>, 1, NoTok)

\* ------------------------------------------------------------------------
\* Source texts the parser is run on
\* ------------------------------------------------------------------------
MaxOps == 2

MaxNest == 2

MaxElems == 3

MaxParts == 2

MaxArgs == 2

MaxPost == 2

MaxItems == 3

MaxFiles == 3

ExPrecedence ==
    <<"2"," ","+"," ","3"," ","*"," ","4">>

ExAssoc ==
    <<"8"," ","-"," ","3"," ","-"," ","2">>

ExArrow ==
    <<"a"," ","=",">"," ","b"," ","=",">"," ","a"," ","+"," ","b">>

ExPipeline ==
    <<"f","e","t","c","h","(","u","r","l",")"," ","|"," ","p","a","r","s",
      "e","(",")"," ","|"," ","f","i","l","t","e","r","(","x"," ","=",">",
      " ","x",".","a","c","t","i","v","e",")">>

ExFString ==
    <<"$","\"","T","o","t","a","l",":"," ","{","i","t","e","m","s"," ","|",
      " ","s","u","m","(",")","}","\"">>

ExMissingValue ==
    <<"l","e","t"," ","x"," ","="," ","\n"," ","l","e","t"," ","y"," ","=",
      " ","2">>

ExTwoLets ==
    <<"l","e","t"," ","x"," ","="," ","1","\n","l","e","t"," ","y"," ","=",
      " ","2">>

ExListTrailing ==
    <<"[","1",","," ","2",","," ","3",",","]">>

ExList ==
    <<"[","1",","," ","2",","," ","3","]">>

ExLabeled ==
    <<"q","u","e","r","y","(","t",","," ","w","h","e","r","e"," ","{"," ",
      "a",":"," ","1"," ","}",")">>

ExConnect ==
    <<"c","o","n","n","e","c","t","(","d","b",","," ","a","s"," ","="," ",
      "\"","m","a","i","n","\"",")">>

ExIfElse ==
    <<"i","f"," ","{"," ","x"," ",">"," ","1"," ","}"," ","{"," ","l","e",
      "t"," ","y"," ","="," ","2"," ","y"," ","}"," ","e","l","s","e"," ",
      "{"," ","n","u","l","l"," ","}">>

ExMixed ==
    <<"f","(","a",","," ","k"," ","="," ","-","1",","," ","t","r","u","e",
      ",",")"," ","#"," ","c","a","l","l","\n","n","o","t"," ","$","v",".",
      "w"," ","=","="," ","{","\"","k","\"",":"," ","1",".","5","e","3",",",
      " ","n",":"," ","f","a","l","s","e","}">>

ExWith ==
    <<"w","i","t","h"," ","a"," ","{","}">>

ExParen ==
    <<"(","2"," ","+"," ","3",")"," ","*"," ","4">>

ExBraces ==
    <<"l","e","t"," ","r"," ","="," ","f","(","{","}",","," ","[","{","}",
      "]",","," ","i","f"," ","{","}"," ","{","}"," ","e","l","s","e"," ",
      "{","}",")">>

Examples ==
    {ExPrecedence, ExAssoc, ExArrow, ExPipeline, ExFString, ExMissingValue,
     ExTwoLets, ExListTrailing, ExList, ExLabeled, ExConnect, ExIfElse,
     ExMixed, ExWith, ExParen, ExBraces, <<>>}

\* spelling of an operator token
Spell(k) ==
    CASE k = "and" -> <<"a", "n", "d">>
      [] k = "or" -> <<"o", "r">>
      [] k = "<=" -> <<"<", "=">>
      [] k = ">=" -> <<">", "=">>
      [] k = "==" -> <<"=", "=">>
      [] k = "!=" -> <<"!", "=">>
      [] k = "=>" -> <<"=", ">">>
      [] OTHER -> <<k>>

OperandNames == <<"a", "b", "c", "d", "e">>

Operand(i) == <<OperandNames[((i - 1) % Len(OperandNames)) + 1]>>

OpKinds == BinOps \cup {"|", "=>"}

\* a op1 b op2 c ... : operands joined by the operators ops[i..]
RECURSIVE ChainText(_, _)
ChainText(ops, i) ==
    IF i > Len(ops) THEN Operand(i)
    ELSE Operand(i) \o <<" ">> \o Spell(ops[i]) \o <<" ">>
             \o ChainText(ops, i + 1)

ChainInputs ==
    {ChainText(ops, 1) : ops \in UNION {[1..n -> OpKinds] : n \in 1..MaxOps}}

\* an empty {} in the positions of a value, and in those of an if
BraceBase ==
    {<<"{", "}">>, <<"{", " ", "}">>,
     <<"i", "f", " ", "{", "}", " ", "{", "}">>,
     <<"i", "f", " ", "{", "}", " ", "{", "}", " ", "e", "l", "s", "e",
       " ", "{", "}">>}

Wrappers == {"arg", "arg2", "list", "list2"}

Wrap(w, b) ==
    CASE w = "arg" -> <<"f", "(">> \o b \o <<")">>
      [] w = "arg2" -> <<"f", "(", "a", ",", " ">> \o b \o <<")">>
      [] w = "list" -> <<"[">> \o b \o <<"]">>
      [] w = "list2" -> <<"[", "1", ",", " ">> \o b \o <<"]">>

RECURSIVE BraceTexts(_)
BraceTexts(n) ==
    IF n = 0 THEN BraceBase
    ELSE BraceTexts(n - 1)
           \cup {Wrap(w, b) : w \in Wrappers, b \in BraceTexts(n - 1)}

BraceInputs ==
    BraceTexts(MaxNest)
        \cup {<<"l", "e", "t", " ", "x", " ", "=", " ">> \o b :
                  b \in BraceTexts(MaxNest)}

\* comma-separated lists with and without the trailing comma
ElemChars == <<"1", "2", "3", "4", "5", "6", "7", "8", "9">>

Elem(i) == <<ElemChars[((i - 1) % Len(ElemChars)) + 1]>>

Item(kind, i) ==
    CASE kind = "list" -> Elem(i)
      [] kind = "args" ->
             IF i % 2 = 0 THEN <<"k", " ", "=", " ">> \o Elem(i) ELSE Elem(i)
      [] kind = "record" -> <<"k", ":", " ">> \o Elem(i)

RECURSIVE Joined(_, _)
Joined(kind, n) ==
    IF n = 0 THEN <<>>
    ELSE IF n = 1 THEN Item(kind, 1)
    ELSE Joined(kind, n - 1) \o <<",", " ">> \o Item(kind, n)

Bracket(kind, body) ==
    CASE kind = "list" -> <<"[">> \o body \o <<"]">>
      [] kind = "args" -> <<"f", "(">> \o body \o <<")">>
      [] kind = "record" -> <<"{">> \o body \o <<"}">>

SeqKinds == {"list", "args", "record"}

SeqInputs ==
    {Bracket(kind, Joined(kind, n) \o tr) :
        kind \in SeqKinds, n \in 0..MaxElems, tr \in {<<>>, <<",">>}}

\* f-strings of text runs and interpolations
FParts ==
    {<<"T", "o", "t", "a", "l", ":", " ">>, <<" ">>, <<"{", "x", "}">>,
     <<"{", "i", "t", "e", "m", "s", " ", "|", " ", "s", "u", "m", "(", ")",
       "}">>,
     <<"{", " ", "a", " ", "+", " ", "1", " ", "}">>}

RECURSIVE FBodies(_)
FBodies(n) ==
    IF n = 0 THEN {<<>>}
    ELSE FBodies(n - 1) \cup {b \o q : b \in FBodies(n - 1), q \in FParts}

FStringInputs == {<<"$", "\"">> \o b \o <<"\"">> : b \in FBodies(MaxParts)}

\* $ and a name, with and without extras between them
VarSeps == {<<>>, <<" ">>, <<"\n">>, <<" ", " ">>, <<"#", "c", "\n">>}

VarNames == {<<"n", "a", "m", "e">>, <<"x">>, <<"l", "e", "t">>}

VarInputs ==
    {<<"$">> \o sep \o nm \o tl :
        sep \in VarSeps, nm \in VarNames,
        tl \in {<<>>, <<" ", "+", " ", "1">>}}

\* argument lists of positional, keyword and labeled-block arguments
Labels ==
    {<<"w", "h", "e", "r", "e">>, <<"w", "i", "t", "h">>, <<"s", "e", "t">>,
     <<"u", "s", "i", "n", "g">>, <<"p", "a", "r", "a", "m", "s">>}

RecordBody == <<" ", "{", " ", "a", ":", " ", "1", " ", "}">>

ArgKinds == {"pos", "kw", "lab"}

ArgText(kind, i) ==
    CASE kind = "pos" -> Operand(i)
      [] kind = "kw" -> <<"k", " ", "=", " ">> \o Elem(i)
      [] kind = "lab" -> <<"w", "h", "e", "r", "e">> \o RecordBody

RECURSIVE ArgsText(_, _)
ArgsText(kinds, n) ==
    IF n = 0 THEN <<>>
    ELSE IF n = 1 THEN ArgText(kinds[1], 1)
    ELSE ArgsText(kinds, n - 1) \o <<",", " ">> \o ArgText(kinds[n], n)

ArgInputs ==
    {<<"q", "(">> \o ArgsText(kinds, Len(kinds)) \o <<")">> :
        kinds \in UNION {[1..n -> ArgKinds] : n \in 1..MaxArgs}}

LabeledInputs ==
    {<<"q", "(", "t", ",", " ">> \o l \o tag \o RecordBody \o <<")">> :
        l \in Labels, tag \in {<<>>, <<":", " ", "T">>}}

\* a primary expression continued by member accesses and calls
PostKinds == {"member", "call", "call0"}

PostSpell(kind, i) ==
    CASE kind = "member" -> <<".">> \o Operand(i + 1)
      [] kind = "call" -> <<"(">> \o Operand(i + 1) \o <<")">>
      [] kind = "call0" -> <<"(", ")">>

RECURSIVE PostText(_, _)
PostText(ops, n) ==
    IF n = 0 THEN Operand(1)
    ELSE PostText(ops, n - 1) \o PostSpell(ops[n], n)

PostSeqs == UNION {[1..n -> PostKinds] : n \in 1..MaxPost}

PostInputs == {PostText(ops, Len(ops)) : ops \in PostSeqs}

\* a prefix operator before an infix operator, and before a postfix chain
InfixKinds == BinOps \cup {"|"}

Prefixes == {<<"n", "o", "t", " ">>, <<"-">>}

ExNot == <<"n", "o", "t", " ", "x", " ", ">", " ", "1", "0">>

ExNegCall == <<"-", "f", "(", "x", ")">>

PrefixInputs ==
    {pre \o ChainText(<<k>>, 1) : pre \in Prefixes, k \in InfixKinds}
      \cup {pre \o t : pre \in Prefixes, t \in PostInputs}
      \cup {ExNot, ExNegCall}

\* braces around let statements and expressions in every order, as a
\* statement and as the condition of an if
ItemKinds == {"let", "expr"}

ItemText(kind, i) ==
    IF kind = "let" THEN <<"l", "e", "t", " ", "x", " ", "=", " ">> \o Elem(i)
    ELSE Operand(i)

RECURSIVE ItemsText(_, _)
ItemsText(kinds, n) ==
    IF n = 0 THEN <<>>
    ELSE ItemsText(kinds, n - 1) \o <<" ">> \o ItemText(kinds[n], n)

ItemSeqs == UNION {[1..n -> ItemKinds] : n \in 1..MaxItems}

Contexts == {"statement", "condition"}

BlockText(ctx, kinds) ==
    LET b == <<"{">> \o ItemsText(kinds, Len(kinds)) \o <<" ", "}">>
    IN  IF ctx = "statement" THEN b
        ELSE <<"i", "f", " ">> \o b \o <<" ", "{", "}">>

BlockInputs == {BlockText(ctx, kinds) : ctx \in Contexts, kinds \in ItemSeqs}

Inputs ==
    Examples \cup ChainInputs \cup BraceInputs \cup SeqInputs
        \cup FStringInputs \cup VarInputs \cup ArgInputs \cup LabeledInputs
        \cup PostInputs \cup PrefixInputs \cup BlockInputs

\* ------------------------------------------------------------------------
\* The parser as a state machine
\* ------------------------------------------------------------------------
\* the script is not running
ScriptOff ==
    /\ dir = <<>>
    /\ list = <<>>
    /\ idx = 0
    /\ file = 0
    /\ OUTPUT = <<>>
    /\ FAIL_COUNT = 0
    /\ SUCCESS_COUNT = 0
    /\ visited = <<>>
    /\ spc = "off"
    /\ exitCode = -1

Init ==
    /\ src \in Inputs
    /\ pos = 1
    /\ la = NoTok
    /\ stack = <<>>
    /\ toks = <<>>
    /\ tree = NoNode
    /\ pc = "run"
    /\ errPos = 0
    /\ ScriptOff

Move == IF pc = "run" /\ la # NoTok THEN Decide(stack, la.kind) ELSE "none"

\* the lexer is called for the next token in the parser's current state
LexToken ==
    /\ pc = "run"
    /\ la = NoTok
    /\ la' = NextToken(src, stack, pos)
    /\ pos' = la'.to + 1
    /\ UNCHANGED <<src, stack, toks, tree, pc, errPos>>
    /\ UNCHANGED script

Shift ==
    /\ Move = "shift"
    /\ stack' = PushToken(stack, la)
    /\ toks' = Append(toks, la)
    /\ la' = NoTok
    /\ UNCHANGED <<src, pos, tree, pc, errPos>>
    /\ UNCHANGED script

ReduceAtom ==
    /\ Move = "atom"
    /\ stack' = RAtom(stack)
    /\ UNCHANGED <<src, pos, la, toks, tree, pc, errPos>>
    /\ UNCHANGED script

ReducePrimary ==
    /\ Move = "primary"
    /\ stack' = RPrimary(stack)
    /\ UNCHANGED <<src, pos, la, toks, tree, pc, errPos>>
    /\ UNCHANGED script

ReduceMember ==
    /\ Move = "member"
    /\ stack' = RMember(stack)
    /\ UNCHANGED <<src, pos, la, toks, tree, pc, errPos>>
    /\ UNCHANGED script

ReduceVarRef ==
    /\ Move = "varref"
    /\ stack' = RVarRef(stack)
    /\ UNCHANGED <<src, pos, la, toks, tree, pc, errPos>>
    /\ UNCHANGED script

ReduceBinary ==
    /\ Move = "binary"
    /\ stack' = RBinary(stack)
    /\ UNCHANGED <<src, pos, la, toks, tree, pc, errPos>>
    /\ UNCHANGED script

ReducePipe ==
    /\ Move = "pipe"
    /\ stack' = RPipe(stack)
    /\ UNCHANGED <<src, pos, la, toks, tree, pc, errPos>>
    /\ UNCHANGED script

ReduceUnary ==
    /\ Move = "unary"
    /\ stack' = RUnary(stack)
    /\ UNCHANGED <<src, pos, la, toks, tree, pc, errPos>>
    /\ UNCHANGED script

ReduceNot ==
    /\ Move = "not"
    /\ stack' = RNot(stack)
    /\ UNCHANGED <<src, pos, la, toks, tree, pc, errPos>>
    /\ UNCHANGED script

ReduceArrow ==
    /\ Move = "arrow"
    /\ stack' = RArrow(stack)
    /\ UNCHANGED <<src, pos, la, toks, tree, pc, errPos>>
    /\ UNCHANGED script

ReduceLet ==
    /\ Move = "let"
    /\ stack' = RLet(stack)
    /\ UNCHANGED <<src, pos, la, toks, tree, pc, errPos>>
    /\ UNCHANGED script

ReduceKwarg ==
    /\ Move = "kwarg"
    /\ stack' = RKwarg(stack)
    /\ UNCHANGED <<src, pos, la, toks, tree, pc, errPos>>
    /\ UNCHANGED script

ReduceProperty ==
    /\ Move = "property"
    /\ stack' = RProperty(stack)
    /\ UNCHANGED <<src, pos, la, toks, tree, pc, errPos>>
    /\ UNCHANGED script

ReduceParen ==
    /\ Move = "paren"
    /\ stack' = RParen(stack)
    /\ UNCHANGED <<src, pos, la, toks, tree, pc, errPos>>
    /\ UNCHANGED script

ReduceArgs ==
    /\ Move = "args"
    /\ stack' = RArgs(stack)
    /\ UNCHANGED <<src, pos, la, toks, tree, pc, errPos>>
    /\ UNCHANGED script

ReduceCall ==
    /\ Move = "call"
    /\ stack' = RCall(stack)
    /\ UNCHANGED <<src, pos, la, toks, tree, pc, errPos>>
    /\ UNCHANGED script

ReduceList ==
    /\ Move = "list"
    /\ stack' = RList(stack)
    /\ UNCHANGED <<src, pos, la, toks, tree, pc, errPos>>
    /\ UNCHANGED script

ReduceRecord ==
    /\ Move = "record"
    /\ stack' = RRecord(stack)
    /\ UNCHANGED <<src, pos, la, toks, tree, pc, errPos>>
    /\ UNCHANGED script

ReduceBlock ==
    /\ Move = "block"
    /\ stack' = RBlock(stack)
    /\ UNCHANGED <<src, pos, la, toks, tree, pc, errPos>>
    /\ UNCHANGED script

ReduceIf ==
    /\ Move = "if"
    /\ stack' = RIf(stack)
    /\ UNCHANGED <<src, pos, la, toks, tree, pc, errPos>>
    /\ UNCHANGED script

ReduceInterp ==
    /\ Move = "interp"
    /\ stack' = RInterp(stack)
    /\ UNCHANGED <<src, pos, la, toks, tree, pc, errPos>>
    /\ UNCHANGED script

ReduceFString ==
    /\ Move = "fstring"
    /\ stack' = RFString(stack)
    /\ UNCHANGED <<src, pos, la, toks, tree, pc, errPos>>
    /\ UNCHANGED script

ReduceConnect ==
    /\ Move = "connect"
    /\ stack' = RConnect(stack)
    /\ UNCHANGED <<src, pos, la, toks, tree, pc, errPos>>
    /\ UNCHANGED script

ReduceExprStmt ==
    /\ Move = "exprstmt"
    /\ stack' = RExprStmt(stack)
    /\ UNCHANGED <<src, pos, la, toks, tree, pc, errPos>>
    /\ UNCHANGED script

Accept ==
    /\ Move = "accept"
    /\ tree' = ProgramNode(src, stack)
    /\ pc' = "done"
    /\ UNCHANGED <<src, pos, la, stack, toks, errPos>>
    /\ UNCHANGED script

\* no action for the token: the parse stops being error-free here
HandleError ==
    /\ Move = "error"
    /\ pc' = "error"
    /\ errPos' = la.from
    /\ UNCHANGED <<src, pos, la, stack, toks, tree>>
    /\ UNCHANGED script

Next ==
    \/ LexToken
    \/ Shift
    \/ ReduceAtom
    \/ ReducePrimary
    \/ ReduceMember
    \/ ReduceVarRef
    \/ ReduceBinary
    \/ ReducePipe
    \/ ReduceUnary
    \/ ReduceNot
    \/ ReduceArrow
    \/ ReduceLet
    \/ ReduceKwarg
    \/ ReduceProperty
    \/ ReduceParen
    \/ ReduceArgs
    \/ ReduceCall
    \/ ReduceList
    \/ ReduceRecord
    \/ ReduceBlock
    \/ ReduceIf
    \/ ReduceInterp
    \/ ReduceFString
    \/ ReduceConnect
    \/ ReduceExprStmt
    \/ Accept
    \/ HandleError

Spec == Init /\ [][Next]_vars

\* ------------------------------------------------------------------------
\* validate-examples.sh
\* ------------------------------------------------------------------------
\* what `tree-sitter parse "$file" 2>&1` can print, line by line
OutProgram == <<"(", "p", "r", "o", "g", "r", "a", "m", ")">>

OutError == <<"(", "E", "R", "R", "O", "R", " ", "[", "0", "]", ")">>

OutMissing == <<"(", "M", "I", "S", "S", "I", "N", "G", ")">>

OutLower == <<"e", "r", "r", "o", "r">>

Outputs ==
    {<<>>, <<OutProgram>>, <<OutProgram, OutError>>, <<OutMissing, OutLower>>}

\* an entry of the examples directory: whether its name matches *.cxql,
\* whether it is a regular file, and what parsing it prints
Entries ==
    {[match |-> TRUE, regular |-> TRUE, out |-> o] : o \in Outputs}
      \cup {[match |-> TRUE, regular |-> FALSE, out |-> <<>>],
            [match |-> FALSE, regular |-> TRUE, out |-> <<>>]}

Dirs == UNION {[1..n -> Entries] : n \in 0..MaxFiles}

\* the entries of d that satisfy the test, by position, in name order
Matching(d) ==
    LET Test(i) == d[i].match
    IN  SelectSeq([i \in 1..Len(d) |-> i], Test)

\* "$EXAMPLES_DIR"/*.cxql: the matching paths, or the pattern itself (the
\* word 0, no path of the directory) when nothing matches
Glob(d) == IF Matching(d) = <<>> THEN <<0>> ELSE Matching(d)

\* [ -f "$file" ]
IsFile(w) == w # 0 /\ dir[w].regular

\* pat occurs in line
Contains(line, pat) ==
    \E k \in 0..(Len(line) - Len(pat)) :
        SubSeq(line, k + 1, k + Len(pat)) = pat

\* echo "$OUTPUT" | grep -q pat
GrepQ(out, pat) == \E i \in 1..Len(out) : Contains(out[i], pat)

ERROR == <<"E", "R", "R", "O", "R">>

\* the script ending with exit 0 whatever was counted
ExitStatusZero(fails) == 0

\* if [ $FAIL_COUNT -eq 0 ]; then exit 0; else exit 1
ExitStatus(fails) == IF fails = 0 THEN 0 ELSE 1

InitValidate ==
    /\ src = <<>>
    /\ pos = 1
    /\ la = NoTok
    /\ stack = <<>>
    /\ toks = <<>>
    /\ tree = NoNode
    /\ pc = "off"
    /\ errPos = 0
    /\ dir \in Dirs
    /\ list = <<>>
    /\ idx = 0
    /\ file = 0
    /\ OUTPUT = <<>>
    /\ FAIL_COUNT = 0
    /\ SUCCESS_COUNT = 0
    /\ visited = <<>>
    /\ spc = "start"
    /\ exitCode = -1

\* for file in "$EXAMPLES_DIR"/*.cxql: the list is expanded once
Expand ==
    /\ spc = "start"
    /\ list' = Glob(dir)
    /\ spc' = "for"
    /\ UNCHANGED <<dir, idx, file, OUTPUT, FAIL_COUNT, SUCCESS_COUNT,
                   visited, exitCode>>
    /\ UNCHANGED parser

ForNext ==
    /\ spc = "for"
    /\ idx < Len(list)
    /\ idx' = idx + 1
    /\ file' = list[idx + 1]
    /\ spc' = "test"
    /\ UNCHANGED <<dir, list, OUTPUT, FAIL_COUNT, SUCCESS_COUNT, visited,
                   exitCode>>
    /\ UNCHANGED parser

ForDone ==
    /\ spc = "for"
    /\ idx = Len(list)
    /\ spc' = "report"
    /\ UNCHANGED <<dir, list, idx, file, OUTPUT, FAIL_COUNT, SUCCESS_COUNT,
                   visited, exitCode>>
    /\ UNCHANGED parser

\* if [ -f "$file" ]; then
TestFile ==
    /\ spc = "test"
    /\ IsFile(file)
    /\ spc' = "parse"
    /\ UNCHANGED <<dir, list, idx, file, OUTPUT, FAIL_COUNT, SUCCESS_COUNT,
                   visited, exitCode>>
    /\ UNCHANGED parser

\* no regular file of that name: the body is skipped
TestSkip ==
    /\ spc = "test"
    /\ ~IsFile(file)
    /\ spc' = "for"
    /\ UNCHANGED <<dir, list, idx, file, OUTPUT, FAIL_COUNT, SUCCESS_COUNT,
                   visited, exitCode>>
    /\ UNCHANGED parser

\* OUTPUT=$(tree-sitter parse "$file" 2>&1)
ParseFile ==
    /\ spc = "parse"
    /\ OUTPUT' = dir[file].out
    /\ visited' = Append(visited, file)
    /\ spc' = "grep"
    /\ UNCHANGED <<dir, list, idx, file, FAIL_COUNT, SUCCESS_COUNT, exitCode>>
    /\ UNCHANGED parser

GrepFail ==
    /\ spc = "grep"
    /\ GrepQ(OUTPUT, ERROR)
    /\ FAIL_COUNT' = FAIL_COUNT + 1
    /\ spc' = "for"
    /\ UNCHANGED <<dir, list, idx, file, OUTPUT, SUCCESS_COUNT, visited,
                   exitCode>>
    /\ UNCHANGED parser

GrepPass ==
    /\ spc = "grep"
    /\ ~GrepQ(OUTPUT, ERROR)
    /\ SUCCESS_COUNT' = SUCCESS_COUNT + 1
    /\ spc' = "for"
    /\ UNCHANGED <<dir, list, idx, file, OUTPUT, FAIL_COUNT, visited,
                   exitCode>>
    /\ UNCHANGED parser

\* the results are printed and the script exits
Report ==
    /\ spc = "report"
    /\ exitCode' = ExitStatus(FAIL_COUNT)
    /\ spc' = "exited"
    /\ UNCHANGED <<dir, list, idx, file, OUTPUT, FAIL_COUNT, SUCCESS_COUNT,
                   visited>>
    /\ UNCHANGED parser

NextValidate ==
    \/ Expand
    \/ ForNext
    \/ ForDone
    \/ TestFile
    \/ TestSkip
    \/ ParseFile
    \/ GrepFail
    \/ GrepPass
    \/ Report

SpecValidate == InitValidate /\ [][NextValidate]_vars

\* ------------------------------------------------------------------------
\* Reading the result: trees without spans, and the trees expected
\* ------------------------------------------------------------------------
Done == pc = "done"

RECURSIVE Strip(_)
Strip(n) ==
    [type |-> n.type, op |-> n.op, text |-> n.text,
     kids |-> [i \in 1..Len(n.kids) |-> Strip(n.kids[i])],
     fields |-> n.fields]

RECURSIVE NodesOf(_)
NodesOf(n) ==
    {n} \cup UNION {NodesOf(n.kids[i]) : i \in 1..Len(n.kids)}

XLeaf(type, text) ==
    [type |-> type, op |-> "", text |-> text, kids |-> <<>>,
     fields |-> <<>>]

XNode(type, op, kids, fields) ==
    [type |-> type, op |-> op, text |-> <<>>, kids |-> kids,
     fields |-> fields]

XId(text) == XLeaf("identifier", text)

XInfix(k, l, r) ==
    XNode(IF k = "|" THEN "pipe_expression" ELSE "binary_expression", k,
          <<l, r>>, <<"left", "right">>)

XArrow(a, body) ==
    XNode("arrow_expression", "=>", <<a, body>>, <<"parameter", "body">>)

XCall(f, args) ==
    XNode("function_call", "",
          <<f, XNode("argument_list", "", args, NoFields(Len(args)))>>,
          <<"function", "arguments">>)

XMember(o, q) ==
    XNode("member_expression", "", <<o, q>>, <<"object", "property">>)

\* a program of one expression statement
XProgram1(e) ==
    XNode("program", "",
          <<XNode("expression_statement", "", <<e>>, <<"">>)>>, <<"">>)

\* the i-th token read, as a leaf
TokLeaf(i) == XLeaf(TokType(toks[i].kind), toks[i].text)

AtomKinds == {"id", "num", "str", "true", "false", "null"}

\* the tokens read are operand (operator operand)^n with n >= 1
IsChain ==
    /\ Len(toks) >= 3
    /\ Len(toks) % 2 = 1
    /\ \A i \in 1..Len(toks) :
          IF i % 2 = 1 THEN toks[i].kind \in AtomKinds
          ELSE toks[i].kind \in OpKinds

ChainOps == (Len(toks) - 1) \div 2

OpAt(j) == toks[2 * j].kind

\* ((t1 op1 t3) op2 t5) ... up to the j-th operator
RECURSIVE LeftFold(_)
LeftFold(j) ==
    IF j = 0 THEN TokLeaf(1)
    ELSE XInfix(OpAt(j), LeftFold(j - 1), TokLeaf(2 * j + 1))

MulOps == {"*", "/", "%"}

AddOps == {"+", "-"}

Levels ==
    {MulOps, AddOps, {"<", ">", "<=", ">="}, {"==", "!="}, {"and"}, {"or"}}

\* the texts made of operands and infix operators alone are all accepted
ChainsAccepted ==
    src \in ChainInputs \cup {ExPrecedence, ExAssoc, ExArrow}
        => pc # "error"

\* C1: an additive operator followed by a multiplicative one takes the
\* multiplicative binary_expression as its right operand (2 + 3 * 4 is
\* 2 + (3 * 4)), and a multiplicative operator followed by an additive one
\* is the left operand of the additive binary_expression.
C1_MulBindsTighter ==
    /\ ChainsAccepted
    /\ (Done /\ IsChain /\ ChainOps = 2)
          => /\ (OpAt(1) \in AddOps /\ OpAt(2) \in MulOps)
                   => Strip(tree)
                        = XProgram1(XInfix(OpAt(1), TokLeaf(1),
                              XInfix(OpAt(2), TokLeaf(3), TokLeaf(5))))
             /\ (OpAt(1) \in MulOps /\ OpAt(2) \in AddOps)
                   => Strip(tree)
                        = XProgram1(XInfix(OpAt(2),
                              XInfix(OpAt(1), TokLeaf(1), TokLeaf(3)),
                              TokLeaf(5)))

C1_Witness ==
    /\ Done
    /\ src = ExPrecedence
    /\ tree.kids[1].kids[1].op = "+"
    /\ tree.kids[1].kids[1].kids[2].op = "*"

\* C2: a chain of binary operators of one precedence level groups to the
\* left: x op1 y op2 z is (x op1 y) op2 z, and 8 - 3 - 2 is (8 - 3) - 2.
C2_LeftAssociative ==
    (Done /\ IsChain /\ \E L \in Levels : \A j \in 1..ChainOps : OpAt(j) \in L)
        => Strip(tree) = XProgram1(LeftFold(ChainOps))

C2_Witness ==
    /\ Done
    /\ src = ExAssoc
    /\ tree.kids[1].kids[1].kids[1].type = "binary_expression"
    /\ tree.kids[1].kids[1].kids[2].text = <<"2">>

\* C3: the arrow is right-associative and binds loosest: every => in a
\* chain of operands and operators makes an arrow_expression whose
\* parameter is the operand before it and whose body runs to the end of
\* the chain; a => b => a + b is a => (b => (a + b)).
C3_ArrowLoosest ==
    /\ (Done /\ src = ExArrow)
          => Strip(tree)
               = XProgram1(XArrow(XId(<<"a">>), XArrow(XId(<<"b">>),
                     XInfix("+", XId(<<"a">>), XId(<<"b">>)))))
    /\ (Done /\ IsChain)
          => \A j \in 1..ChainOps :
                OpAt(j) = "=>"
                  => \E n \in NodesOf(tree) :
                        /\ n.type = "arrow_expression"
                        /\ n.fields = <<"parameter", "body">>
                        /\ n.kids[1].from = toks[2 * j - 1].from
                        /\ n.kids[2].from = toks[2 * j + 1].from
                        /\ n.kids[2].to = toks[Len(toks)].to

C3_Witness ==
    /\ Done
    /\ src = ExArrow
    /\ tree.kids[1].kids[1].type = "arrow_expression"
    /\ tree.kids[1].kids[1].kids[2].type = "arrow_expression"
    /\ tree.kids[1].kids[1].kids[2].kids[2].type = "binary_expression"

ExPipelineTree ==
    XProgram1(
      XInfix("|",
        XInfix("|",
          XCall(XId(<<"f", "e", "t", "c", "h">>), <<XId(<<"u", "r", "l">>)>>),
          XCall(XId(<<"p", "a", "r", "s", "e">>), <<>>)),
        XCall(XId(<<"f", "i", "l", "t", "e", "r">>),
              <<XArrow(XId(<<"x">>),
                       XMember(XId(<<"x">>),
                               XId(<<"a", "c", "t", "i", "v", "e">>)))>>)))

\* C4: s1 | s2 | s3 is the pipe_expression of (the pipe_expression of s1
\* and s2) and s3, the stages in source order; in fetch(url) | parse() |
\* filter(x => x.active) the third stage is a function_call with the one
\* argument x => x.active, an arrow_expression over a member_expression.
C4_PipelineLeftToRight ==
    /\ (Done /\ src = ExPipeline) => Strip(tree) = ExPipelineTree
    /\ (Done /\ IsChain /\ \A j \in 1..ChainOps : OpAt(j) = "|")
          => Strip(tree) = XProgram1(LeftFold(ChainOps))
    /\ src = ExPipeline => pc # "error"

C4_Witness ==
    /\ Done
    /\ src = ExPipeline
    /\ tree.kids[1].kids[1].type = "pipe_expression"
    /\ tree.kids[1].kids[1].kids[1].type = "pipe_expression"
    /\ Len(tree.kids[1].kids[1].kids[2].kids[2].kids) = 1

\* ------------------------------------------------------------------------
\* Braces, lists, f-strings, recovery, variables, arguments
\* ------------------------------------------------------------------------
EmptyBraceAt(i) ==
    /\ i < Len(toks)
    /\ toks[i].kind = "{"
    /\ toks[i + 1].kind = "}"

\* the node spanning exactly the tokens i..j has one of the types
SpanIs(i, j, types) ==
    \E n \in NodesOf(tree) :
        /\ n.from = toks[i].from
        /\ n.to = toks[j].to
        /\ n.type \in types

\* every {} after ( , [ or = is an empty record_literal and no block
ValueBracesAreRecords ==
    \A i \in 2..Len(toks) :
        (EmptyBraceAt(i) /\ toks[i - 1].kind \in {"(", ",", "[", "="})
            => /\ SpanIs(i, i + 1, {"record_literal"})
               /\ ~SpanIs(i, i + 1, {"block"})

\* every {} after if, after the condition or the consequent of an if,
\* or after else, is an empty block and no record_literal
IfBracesAreBlocks ==
    /\ \A n \in NodesOf(tree) :
          n.type = "if_expression"
              => \A j \in 1..Len(n.kids) : n.kids[j].type = "block"
    /\ \A i \in 2..Len(toks) :
          (EmptyBraceAt(i) /\ toks[i - 1].kind \in {"if", "else"})
              => /\ SpanIs(i, i + 1, {"block"})
                 /\ ~SpanIs(i, i + 1, {"record_literal"})

NoEmptyBlockValue ==
    \A n \in NodesOf(tree) :
        n.type \in {"argument_list", "list_literal", "let_statement"}
            => \A j \in 1..Len(n.kids) :
                  ~(n.kids[j].type = "block" /\ n.kids[j].kids = <<>>)

RemoveAt(t, i) == SubSeq(t, 1, i - 1) \o SubSeq(t, i + 1, Len(t))

Closers == {")", "]", "}"}

EndsWithTrailingComma ==
    /\ Len(toks) >= 3
    /\ toks[Len(toks)].kind \in Closers
    /\ toks[Len(toks) - 1].kind = ","

\* the lists of one or more elements, and the empty ones without a comma
SeqWellFormed ==
    {Bracket(kind, Joined(kind, n) \o tr) :
        kind \in SeqKinds, n \in 1..MaxElems, tr \in {<<>>, <<",">>}}
      \cup {Bracket(kind, <<>>) : kind \in SeqKinds}

XNum(c) == XLeaf("number_literal", <<c>>)

\* C6: in argument lists, list literals and record literals a trailing
\* comma after the last element is accepted and not required, and the
\* tree of the text with the trailing comma, spans apart, is the tree of
\* the text without it; [1, 2, 3,] is the list_literal of 1, 2 and 3.
C6_TrailingComma ==
    /\ src \in SeqWellFormed \cup {ExListTrailing, ExList} => pc # "error"
    /\ (Done /\ EndsWithTrailingComma)
          => LET r == ParseOf(RemoveAt(src, toks[Len(toks) - 1].from))
             IN  /\ r.pc = "done"
                 /\ Strip(r.tree) = Strip(tree)
    /\ (Done /\ src \in {ExListTrailing, ExList})
          => Strip(tree)
               = XProgram1(XNode("list_literal", "",
                     <<XNum("1"), XNum("2"), XNum("3")>>, NoFields(3)))

C6_Witness ==
    /\ Done
    /\ src = ExListTrailing
    /\ EndsWithTrailingComma
    /\ Len(tree.kids[1].kids[1].kids) = 3

ExFStringTree ==
    XProgram1(
      XNode("fstring_literal", "",
        <<XLeaf("fstring_text", <<"T", "o", "t", "a", "l", ":", " ">>),
          XNode("fstring_interpolation", "",
            <<XInfix("|", XId(<<"i", "t", "e", "m", "s">>),
                     XCall(XId(<<"s", "u", "m">>), <<>>))>>,
            <<"expression">>)>>,
        NoFields(2)))

\* the parts of f-string n lie in source order and cover all that is
\* between $" and ", each text part being a longest run without { and "
PartsInOrder(n) ==
    LET k == n.kids
    IN  /\ \A j \in 1..Len(k) :
              /\ k[j].type \in {"fstring_text", "fstring_interpolation"}
              /\ k[j].from = IF j = 1 THEN n.from + 2 ELSE k[j - 1].to + 1
              /\ k[j].type = "fstring_text"
                    => /\ k[j].text = SubSeq(src, k[j].from, k[j].to)
                       /\ \A q \in k[j].from..k[j].to :
                             src[q] \notin {"{", "\""}
                       /\ j > 1 => k[j - 1].type # "fstring_text"
              /\ k[j].type = "fstring_interpolation"
                    => /\ src[k[j].from] = "{"
                       /\ src[k[j].to] = "}"
                       /\ Len(k[j].kids) = 1
                       /\ k[j].fields = <<"expression">>
        /\ n.to = IF Len(k) = 0 THEN n.from + 2 ELSE k[Len(k)].to + 1

\* C7: an f-string is its text runs and interpolations in source order,
\* every interpolation holding one expression; $"Total: {items | sum()}"
\* is the fstring_text `Total: ` with its trailing blank and then one
\* fstring_interpolation of the pipe_expression items | sum().
C7_FStringParts ==
    /\ src \in FStringInputs \cup {ExFString} => pc # "error"
    /\ (Done /\ src = ExFString) => Strip(tree) = ExFStringTree
    /\ Done => \A n \in NodesOf(tree) :
                  n.type = "fstring_literal" => PartsInOrder(n)

C7_Witness ==
    /\ Done
    /\ src = ExFString
    /\ Len(tree.kids[1].kids[1].kids) = 2
    /\ tree.kids[1].kids[1].kids[1].text = <<"T", "o", "t", "a", "l", ":", " ">>
    /\ tree.kids[1].kids[1].kids[2].kids[1].type = "pipe_expression"

\* where the value of x is missing: after the = and up to the next word
MissingValueSpan == 8..11

\* C8: on `let x = ` newline ` let y = 2` the syntax error is reported
\* at the missing value of x, the second let statement being read as a
\* statement.
C8_ErrorAtMissingValue ==
    (src = ExMissingValue /\ pc \in {"done", "error"})
        => /\ pc = "error"
           /\ errPos \in MissingValueSpan

\* what the parser does on that text: the second `let` is taken as the
\* identifier that is the value of x, y is an expression statement, and
\* the error is at the second =
C8_Observed ==
    (src = ExMissingValue /\ pc = "error")
        => /\ errPos = 17
           /\ toks[4].kind = "id"
           /\ toks[4].text = <<"l", "e", "t">>
           /\ toks[5].text = <<"y">>

\* C9: a variable_reference is $ with the identifier right after it,
\* nothing between the two.
C9_NoSpaceAfterDollar ==
    Done => \A n \in NodesOf(tree) :
               n.type = "variable_reference"
                   => n.kids[1].from = n.from + 1

PlainKinds == UNION {[1..n -> {"pos", "kw"}] : n \in 1..MaxArgs}

ArgsOf(kinds) == <<"q", "(">> \o ArgsText(kinds, Len(kinds)) \o <<")">>

WithLabeledBlock ==
    LabeledInputs \cup {ExLabeled}
        \cup {ArgsOf(kinds) :
                kinds \in {k \in UNION {[1..n -> ArgKinds] : n \in 1..MaxArgs} :
                              \E j \in DOMAIN k : k[j] = "lab"}}

ArgType(kind) == IF kind = "kw" THEN "keyword_argument" ELSE "identifier"

RECURSIVE PostTree(_, _)
PostTree(ops, n) ==
    IF n = 0 THEN XId(Operand(1))
    ELSE CASE ops[n] = "member" ->
                  XMember(PostTree(ops, n - 1), XId(Operand(n + 1)))
           [] ops[n] = "call" ->
                  XCall(PostTree(ops, n - 1), <<XId(Operand(n + 1))>>)
           [] ops[n] = "call0" -> XCall(PostTree(ops, n - 1), <<>>)

\* C11: member accesses and calls chain to the left, each taking all
\* that is before it as its object or callee: a.b.c is the
\* member_expression of the member_expression a.b and c, a.b(c) is the
\* function_call of the member_expression a.b, and a(b).c is the
\* member_expression whose object is the function_call a(b).
C11_PostfixChainsLeft ==
    /\ src \in PostInputs => pc # "error"
    /\ \A ops \in PostSeqs :
          (Done /\ src = PostText(ops, Len(ops)))
              => Strip(tree) = XProgram1(PostTree(ops, Len(ops)))

C11_Witness ==
    /\ Done
    /\ src = <<"a", ".", "b", "(", "c", ")">>
    /\ Len(tree.kids) = 1
    /\ tree.kids[1].kids[1].type = "function_call"
    /\ tree.kids[1].kids[1].kids[1].type = "member_expression"

XNot(e) == XNode("logical_not_expression", "not", <<e>>, <<"operand">>)

XNeg(e) == XNode("unary_expression", "-", <<e>>, <<"operand">>)

\* the tokens read are a prefix operator, an operand, an infix operator
\* and an operand
IsPrefixed(pre) ==
    /\ Len(toks) = 4
    /\ toks[1].kind = pre
    /\ toks[2].kind \in AtomKinds
    /\ toks[3].kind \in InfixKinds
    /\ toks[4].kind \in AtomKinds

CmpOps == {"<", ">", "<=", ">="}

EqOps == {"==", "!="}

\* C12: the operand of not takes a following comparison or equality (as
\* it takes arithmetic and the pipe), and stops before and and or:
\* not x > 10 is not (x > 10), not a == b is not (a == b), not a and b
\* is (not a) and b, not a or b is (not a) or b.
C12_NotBetweenEqualityAndAnd ==
    /\ src \in PrefixInputs => pc # "error"
    /\ (Done /\ IsPrefixed("not"))
          => IF toks[3].kind \in {"and", "or"}
             THEN Strip(tree)
                    = XProgram1(XInfix(toks[3].kind, XNot(TokLeaf(2)),
                                       TokLeaf(4)))
             ELSE Strip(tree)
                    = XProgram1(XNot(XInfix(toks[3].kind, TokLeaf(2),
                                            TokLeaf(4))))
    /\ (Done /\ src = ExNot)
          => Strip(tree)
               = XProgram1(XNot(XInfix(">", XId(<<"x">>),
                                XLeaf("number_literal", <<"1", "0">>))))

C12_Witness ==
    /\ Done
    /\ src = ExNot
    /\ tree.kids[1].kids[1].type = "logical_not_expression"
    /\ tree.kids[1].kids[1].kids[1].op = ">"

\* C13: the operand of unary minus takes a following member access or
\* call and no following binary operator or pipe: -a * b is (-a) * b,
\* -a + b is (-a) + b, and in -a.b and -f(x) the minus applies to the
\* whole member_expression or function_call.
C13_UnaryMinusBinding ==
    /\ (Done /\ IsPrefixed("-"))
          => Strip(tree)
               = XProgram1(XInfix(toks[3].kind, XNeg(TokLeaf(2)),
                                  TokLeaf(4)))
    /\ \A ops \in PostSeqs :
          (Done /\ src = <<"-">> \o PostText(ops, Len(ops)))
              => Strip(tree) = XProgram1(XNeg(PostTree(ops, Len(ops))))
    /\ (Done /\ src = ExNegCall)
          => Strip(tree)
               = XProgram1(XNeg(XCall(XId(<<"f">>), <<XId(<<"x">>)>>)))
    /\ src \in {<<"-">> \o t : t \in PostInputs} \cup {ExNegCall}
          => pc # "error"

C13_Witness ==
    /\ Done
    /\ src = <<"-", "a", " ", "*", " ", "b">>
    /\ tree.kids[1].kids[1].op = "*"
    /\ tree.kids[1].kids[1].kids[1].type = "unary_expression"

\* ------------------------------------------------------------------------
\* Block bodies
\* ------------------------------------------------------------------------
\* let statements first, then at most one expression
LetsThenResult(kinds) ==
    \A j \in 1..Len(kinds) : kinds[j] = "expr" => j = Len(kinds)

BodyInOrder(n) ==
    \A j \in 1..Len(n.kids) :
        /\ j < Len(n.kids) => n.kids[j].type = "let_statement"
        /\ n.fields[j] = "result" <=> n.kids[j].type # "let_statement"
        /\ n.fields[j] = "result" => j = Len(n.kids)

\* the block written first in a text of BlockInputs
FirstBlock(ctx) ==
    IF ctx = "statement" THEN tree.kids[1].kids[1]
    ELSE tree.kids[1].kids[1].kids[1]

ItemType(kind) == IF kind = "let" THEN "let_statement" ELSE "identifier"

\* C14: the children of a block are let statements and then at most one
\* expression, which carries the field result and is the last child;
\* braces holding a let statement after an expression, or two
\* expressions in sequence, are not accepted.
C14_BlockBody ==
    /\ Done => \A n \in NodesOf(tree) : n.type = "block" => BodyInOrder(n)
    /\ \A ctx \in Contexts, kinds \in ItemSeqs :
          (pc \in {"done", "error"} /\ src = BlockText(ctx, kinds))
              => IF LetsThenResult(kinds)
                 THEN /\ pc # "error"
                      /\ Done
                            => /\ FirstBlock(ctx).type = "block"
                               /\ Len(FirstBlock(ctx).kids) = Len(kinds)
                               /\ \A j \in 1..Len(kinds) :
                                     FirstBlock(ctx).kids[j].type
                                         = ItemType(kinds[j])
                 ELSE ~Done

C14_Witness ==
    /\ Done
    /\ src = BlockText("statement", <<"let", "let", "expr">>)
    /\ tree.kids[1].kids[1].type = "block"
    /\ tree.kids[1].kids[1].fields = <<"", "", "result">>

\* ------------------------------------------------------------------------
\* The pipe among the additive operators
\* ------------------------------------------------------------------------
PipeLevel == AddOps \cup {"|"}

\* C16: | is on the level of + and -, left-associative with them: a chain
\* of |, + and - groups from the left whichever comes first, a + b | c
\* being the pipe_expression of a + b and c and a | b + c the
\* binary_expression of a | b and c; a multiplicative operator after a
\* pipe binds first, a | b * c being a | (b * c).
C16_PipeOnAdditiveLevel ==
    /\ (Done /\ IsChain /\ \A j \in 1..ChainOps : OpAt(j) \in PipeLevel)
          => Strip(tree) = XProgram1(LeftFold(ChainOps))
    /\ (Done /\ IsChain /\ ChainOps = 2 /\ OpAt(1) = "|"
             /\ OpAt(2) \in MulOps)
          => Strip(tree)
               = XProgram1(XInfix("|", TokLeaf(1),
                                  XInfix(OpAt(2), TokLeaf(3), TokLeaf(5))))

C16_Witness ==
    /\ Done
    /\ src = ChainText(<<"|", "+">>, 1)
    /\ tree.kids[1].kids[1].type = "binary_expression"
    /\ tree.kids[1].kids[1].op = "+"
    /\ tree.kids[1].kids[1].kids[1].type = "pipe_expression"

\* ------------------------------------------------------------------------
\* The validation run
\* ------------------------------------------------------------------------
\* the example files: the regular files whose name matches, in the order
\* of the directory
ExampleFiles ==
    LET Test(i) == dir[i].match /\ dir[i].regular
    IN  SelectSeq([i \in 1..Len(dir) |-> i], Test)

FailedFiles ==
    {i \in 1..Len(dir) :
        dir[i].match /\ dir[i].regular /\ GrepQ(dir[i].out, ERROR)}

\* C15: at exit every example file has been parsed once, in order, and
\* counted as failed if its parse output contains ERROR and as passed if
\* not; the exit code is 0 if no file failed and 1 otherwise, and with
\* no .cxql file nothing is counted and the exit code is 0.
C15_ExitCode ==
    spc = "exited"
        => /\ visited = ExampleFiles
           /\ FAIL_COUNT = Cardinality(FailedFiles)
           /\ SUCCESS_COUNT = Len(ExampleFiles) - Cardinality(FailedFiles)
           /\ exitCode \in {0, 1}
           /\ exitCode = 0 <=> FailedFiles = {}
           /\ Matching(dir) = <<>>
                 => /\ FAIL_COUNT = 0
                    /\ SUCCESS_COUNT = 0
                    /\ exitCode = 0

C15_Witness ==
    /\ spc = "exited"
    /\ exitCode = 1
    /\ FAIL_COUNT = 1
    /\ SUCCESS_COUNT = 1
    /\ Len(dir) = 3
====
